---- MODULE Spec2Model ----
(***************************************************************************)
(* A model of src/main.py: the CSV tools (analyze_csv_data, filter_data),  *)
(* the tool dispatcher (process_tool_calls), the ReAct loop                *)
(* (run_agentic_loop) and the asynchronous wrapper (process_with_agent).   *)
(*                                                                         *)
(* Text.  A Python str is modelled as a sequence of tokens.  A token is    *)
(* either one character ("a", " ", ",", "\n", ...) or a literal fragment   *)
(* of one of the program's messages ("Error: ", "CSV data is empty.").     *)
(* A fragment holds no delimiter, quote or line break and is no white      *)
(* space, so the CSV reader, strip() and float() treat it as one ordinary  *)
(* non-blank, non-numeric character.                                       *)
(***************************************************************************)
EXTENDS Integers, Sequences, FiniteSets, TLC

VARIABLES
    \* the filter_data scenario
    fpc,        \* its position: "call", "again", "done" ("off" in other scenarios)
    fcsv,       \* csv_text given to filter_data
    fcol,       \* column_name
    fop,        \* operator
    fval,       \* value
    fout,       \* outcome of filter_data(fcsv, fcol, fop, fval)
    fout2,      \* outcome of filter_data(fout.text, fcol, fop, fval)
    \* the analyze_csv_data scenario
    apc,        \* its position: "call", "again", "done" ("off" in other scenarios)
    acsv,       \* csv_text given to analyze_csv_data
    aquery,     \* query
    aout,       \* outcome of analyze_csv_data(acsv, aquery)
    aout2,      \* outcome of the same call made again
    \* the agent runs, one per CSV input; each is a function of the run id
    co,             \* process_with_agent coroutine: "waiting" for a capacity slot,
                    \* "awaiting" the executor, "done", "timedout"; "direct" when
                    \* run_agentic_loop is called directly; "absent"
    pc,             \* run_agentic_loop: "none", "queued", "cancelled", "call",
                    \* "while", "tools", "returned", "failed"
    csv_data,       \* the run's CSV text
    user_query,     \* the task instructions
    max_iterations, \* the iteration budget
    stub,           \* the model stub: tool-requesting responses it still gives
    messages,       \* the history
    iteration,      \* the loop counter
    response,       \* the model response being processed
    tool_results,   \* results of process_tool_calls so far
    result,         \* value returned by run_agentic_loop
    output,         \* value returned by process_with_agent
    invocations,    \* (observer) number of llm_with_tools.invoke calls
    dispatched      \* (observer) log of the tool calls process_tool_calls handled

fvars == <<fpc, fcsv, fcol, fop, fval, fout, fout2, apc, acsv, aquery, aout, aout2>>

avars == <<co, pc, csv_data, user_query, max_iterations, stub, messages, iteration,
           response, tool_results, result, output, invocations, dispatched>>

vars == <<fvars, avars>>

---------------------------------------------------------------------------
(* Bounds of the enumerated inputs *)

\* longest CSV text enumerated over Chars
MaxLen == 4

\* the characters CSV texts are enumerated over
Chars == {"a", "1", " ", ",", "\n"}

\* every text of at most n characters
Texts(n) == UNION {[1..k -> Chars] : k \in 0..n}

\* texts with quoted fields, carriage returns and blank lines
QuotedSamples ==
    { <<"\"", "a", "\"", "\n", "\"", "a", " ", "\"">>,
      <<"a", "\n", "\"", "a", ",", "\"">>,
      <<"a", ",", "1", "\n", "\"", "\"", ",", "1", "\n", "a", " ", ",", "1", "1">>,
      <<"a", "\r", "1", "\n", "a">>,
      <<"a", "\r", "\n", "\n", "a", " ", "\r", "\n">>,
      <<"\"", "\"", "\n", "\"", "\"">> }

ColumnNames == { <<"a">>, <<"1">>, <<" ", "a">>, <<>> }

Values == { <<"a">>, <<"a", " ">>, <<"1">>, <<" ">>, <<>> }

---------------------------------------------------------------------------
(* Python str primitives *)

\* str.isspace() of one character
IsSpace(c) == c \in {" ", "\n", "\r", "\t"}

RECURSIVE LStrip(_)
LStrip(s) == IF s # <<>> /\ IsSpace(Head(s)) THEN LStrip(Tail(s)) ELSE s

RECURSIVE RStrip(_)
RStrip(s) ==
    IF s # <<>> /\ IsSpace(s[Len(s)]) THEN RStrip(SubSeq(s, 1, Len(s) - 1)) ELSE s

\* str.strip()
Strip(s) == RStrip(LStrip(s))

Digits == {"0", "1", "2", "3", "4", "5", "6", "7", "8", "9"}

DigitVal(c) ==
    CASE c = "0" -> 0 [] c = "1" -> 1 [] c = "2" -> 2 [] c = "3" -> 3
      [] c = "4" -> 4 [] c = "5" -> 5 [] c = "6" -> 6 [] c = "7" -> 7
      [] c = "8" -> 8 [] c = "9" -> 9

RECURSIVE DecValue(_)
DecValue(s) ==
    IF s = <<>> THEN 0
    ELSE 10 * DecValue(SubSeq(s, 1, Len(s) - 1)) + DigitVal(s[Len(s)])

\* the ValueError of float()
NotANumber == -1

\* float(s): surrounding white space is ignored; over the characters of the
\* model a number is a non-empty run of digits.
Float(s) ==
    LET t == Strip(s)
    IN  IF t # <<>> /\ \A i \in 1..Len(t) : t[i] \in Digits
        THEN DecValue(t) ELSE NotANumber

\* ord(c); a message fragment is ranked as its first letter
Ord(c) ==
    CASE c = "\t" -> 9 [] c = "\n" -> 10 [] c = "\r" -> 13 [] c = " " -> 32
      [] c = "\"" -> 34 [] c = "," -> 44 [] c \in Digits -> 48 + DigitVal(c)
      [] c = "a" -> 97
      [] OTHER -> 69

\* a < b for str: lexicographic by code point
RECURSIVE StrLess(_, _)
StrLess(a, b) ==
    IF b = <<>> THEN FALSE
    ELSE IF a = <<>> THEN TRUE
    ELSE IF Ord(Head(a)) # Ord(Head(b)) THEN Ord(Head(a)) < Ord(Head(b))
    ELSE StrLess(Tail(a), Tail(b))

\* sep.join(parts)
RECURSIVE Join(_, _)
Join(sep, parts) ==
    IF parts = <<>> THEN <<>>
    ELSE IF Len(parts) = 1 THEN parts[1]
    ELSE parts[1] \o sep \o Join(sep, Tail(parts))

---------------------------------------------------------------------------
(* csv.reader over io.StringIO(text), default (excel) dialect *)

IsNewline(c) == c \in {"\n", "\r"}

\* parse_save_field: the field read so far joins the record
SaveField(p, state) ==
    [p EXCEPT !.fields = Append(p.fields, p.field), !.field = <<>>, !.state = state]

\* parse_add_char
AddChar(p, c, state) == [p EXCEPT !.field = Append(p.field, c), !.state = state]

\* One character of the parser.  p = [state, field, fields, rows, ok]
ProcessChar(p, c) ==
    CASE p.state = "EAT_CRNL" ->
            IF IsNewline(c) THEN p ELSE [p EXCEPT !.ok = FALSE]
      [] p.state = "START_RECORD" /\ IsNewline(c) ->
            [p EXCEPT !.state = "EAT_CRNL"]
      [] p.state \in {"START_RECORD", "START_FIELD"} /\ ~IsNewline(c) ->
            IF c = "\"" THEN [p EXCEPT !.state = "IN_QUOTED_FIELD"]
            ELSE IF c = "," THEN SaveField(p, "START_FIELD")
            ELSE AddChar(p, c, "IN_FIELD")
      [] p.state = "START_FIELD" /\ IsNewline(c) ->
            SaveField(p, "EAT_CRNL")
      [] p.state = "IN_FIELD" ->
            IF IsNewline(c) THEN SaveField(p, "EAT_CRNL")
            ELSE IF c = "," THEN SaveField(p, "START_FIELD")
            ELSE AddChar(p, c, "IN_FIELD")
      [] p.state = "IN_QUOTED_FIELD" ->
            IF c = "\"" THEN [p EXCEPT !.state = "QUOTE_IN_QUOTED_FIELD"]
            ELSE AddChar(p, c, "IN_QUOTED_FIELD")
      [] p.state = "QUOTE_IN_QUOTED_FIELD" ->
            IF c = "\"" THEN AddChar(p, c, "IN_QUOTED_FIELD")
            ELSE IF c = "," THEN SaveField(p, "START_FIELD")
            ELSE IF IsNewline(c) THEN SaveField(p, "EAT_CRNL")
            ELSE AddChar(p, c, "IN_FIELD")

\* The record read so far is complete.
EndRecord(p) ==
    [p EXCEPT !.state = "START_RECORD", !.rows = Append(p.rows, p.fields),
              !.fields = <<>>]

\* The end of a line of the input: a record is complete unless a quoted
\* field is open.
ProcessEOL(p) ==
    IF p.state = "IN_QUOTED_FIELD" THEN p
    ELSE IF p.state \in {"START_FIELD", "IN_FIELD", "QUOTE_IN_QUOTED_FIELD"}
    THEN EndRecord(SaveField(p, "START_RECORD"))
    ELSE EndRecord(p)

\* The end of the input: an open field closes the last record.
ProcessEOF(p) ==
    IF p.field # <<>> \/ p.state = "IN_QUOTED_FIELD"
    THEN EndRecord(SaveField(p, "START_RECORD"))
    ELSE p

\* One character, and the end of the line it closes
ProcessLineChar(q, lineEnd) == IF q.ok /\ lineEnd THEN ProcessEOL(q) ELSE q

RECURSIVE ReaderRun(_, _, _)
ReaderRun(text, i, p) ==
    IF ~p.ok THEN p
    ELSE IF i > Len(text) THEN ProcessEOF(p)
    ELSE ReaderRun(text, i + 1,
             ProcessLineChar(ProcessChar(p, text[i]),
                             text[i] = "\n" \/ i = Len(text)))

ReaderStart ==
    [state |-> "START_RECORD", field |-> <<>>, fields |-> <<>>, rows |-> <<>>,
     ok |-> TRUE]

ReaderOutcome(p) == [ok |-> p.ok, rows |-> p.rows]

\* list(csv.reader(io.StringIO(text))): [ok, rows]; ok = FALSE is csv.Error
CsvReader(text) == ReaderOutcome(ReaderRun(text, 1, ReaderStart))

CsvErrorText == <<"new-line character seen in unquoted field">>

---------------------------------------------------------------------------
(* csv.writer(output).writerows(rows), default (excel) dialect *)

RECURSIVE DoubleQuotes(_)
DoubleQuotes(s) ==
    IF s = <<>> THEN <<>>
    ELSE (IF Head(s) = "\"" THEN <<"\"", "\"">> ELSE <<Head(s)>>)
         \o DoubleQuotes(Tail(s))

\* one field, quoted when it holds a delimiter, a quote or a line break
WriteField(s, quoteEmpty) ==
    IF (\E i \in 1..Len(s) : s[i] \in {",", "\"", "\r", "\n"})
       \/ (s = <<>> /\ quoteEmpty)
    THEN <<"\"">> \o DoubleQuotes(s) \o <<"\"">>
    ELSE s

WriteRow(row) ==
    Join(<<",">>, [i \in 1..Len(row) |-> WriteField(row[i], Len(row) = 1)])
    \o <<"\r", "\n">>

RECURSIVE WriteRows(_)
WriteRows(rows) ==
    IF rows = <<>> THEN <<>> ELSE WriteRow(Head(rows)) \o WriteRows(Tail(rows))

---------------------------------------------------------------------------
(* filter_data *)

Operators == {"==", "!=", ">", "<", ">=", "<="}

OperatorList == <<"==", "!=", ">", "<", ">=", "<=">>

\* op_map[operator](a, b) for two floats
NumCompare(op, a, b) ==
    CASE op = "==" -> a = b [] op = "!=" -> a # b [] op = ">" -> a > b
      [] op = "<" -> a < b [] op = ">=" -> a >= b [] op = "<=" -> a <= b

\* op_map[operator](a, b) for two strs
StrCompare(op, a, b) ==
    CASE op = "==" -> a = b [] op = "!=" -> a # b [] op = ">" -> StrLess(b, a)
      [] op = "<" -> StrLess(a, b) [] op = ">=" -> ~StrLess(a, b)
      [] op = "<=" -> ~StrLess(b, a)

\* headers.index(column_name): 0 stands for the ValueError
RECURSIVE IndexOf(_, _, _)
IndexOf(headers, name, i) ==
    IF i > Len(headers) THEN 0
    ELSE IF headers[i] = name THEN i
    ELSE IndexOf(headers, name, i + 1)

\* whether the loop over lines[1:] appends the row
CellPasses(cell, cellNum, op, value, valueNum) ==
    IF valueNum # NotANumber
    THEN cellNum # NotANumber /\ NumCompare(op, cellNum, valueNum)
    ELSE StrCompare(op, cell, value)

RowPasses(row, colIndex, op, value) ==
    /\ Len(row) >= colIndex
    /\ CellPasses(row[colIndex], Float(row[colIndex]), op, value, Float(value))

RECURSIVE SelectRows(_, _, _, _)
SelectRows(rows, colIndex, op, value) ==
    IF rows = <<>> THEN <<>>
    ELSE (IF RowPasses(Head(rows), colIndex, op, value)
          THEN <<Head(rows)>> ELSE <<>>)
         \o SelectRows(Tail(rows), colIndex, op, value)

ColumnNotFound(column_name, headers) ==
    <<"Error: ", "Column '">> \o column_name
    \o <<"' not found. Available columns: ">> \o Join(<<",", " ">>, headers)

InvalidOperator(operator) ==
    <<"Error: ", "Invalid operator '", operator, "'. Use one of: ">>
    \o Join(<<",", " ">>, [i \in 1..6 |-> <<OperatorList[i]>>])

NoMatchingRows(column_name, operator, value) ==
    <<"Filtered data for ">> \o column_name \o <<" ", operator, " ">>
    \o value \o <<": No matching rows found.">>

FilterOutcome(kind, rows, text) == [kind |-> kind, rows |-> rows, text |-> text]

\* lines 210-216: the rows kept, written back as CSV text
FilterOutput(headers, kept, column_name, operator, value) ==
    IF kept = <<>>
    THEN FilterOutcome("none", <<>>, NoMatchingRows(column_name, operator, value))
    ELSE FilterOutcome("rows", kept, Strip(WriteRows(<<headers>> \o kept)))

\* the operator looked up before the column
FilterLinesOperatorFirst(headers, data, colIndex, column_name, operator, value) ==
    IF operator \notin Operators THEN
        FilterOutcome("operator", <<>>, InvalidOperator(operator))
    ELSE IF colIndex = 0 THEN
        FilterOutcome("column", <<>>, ColumnNotFound(column_name, headers))
    ELSE FilterOutput(headers, SelectRows(data, colIndex, operator, value),
                      column_name, operator, value)

\* lines 162-208, for the header row, the data rows and the column's index
FilterLines(headers, data, colIndex, column_name, operator, value) ==
    IF colIndex = 0 THEN
        FilterOutcome("column", <<>>, ColumnNotFound(column_name, headers))
    ELSE IF operator \notin Operators THEN
        FilterOutcome("operator", <<>>, InvalidOperator(operator))
    ELSE FilterOutput(headers, SelectRows(data, colIndex, operator, value),
                      column_name, operator, value)

\* lines 157-219, for the outcome of the CSV reader
FilterParsed(parsed, column_name, operator, value) ==
    IF ~parsed.ok THEN
        FilterOutcome("exception", <<>>, <<"Error during filtering: ">> \o CsvErrorText)
    ELSE IF parsed.rows = <<>> THEN
        FilterOutcome("empty", <<>>, <<"Error: ", "CSV data is empty.">>)
    ELSE FilterLines(Head(parsed.rows), Tail(parsed.rows),
                     IndexOf(Head(parsed.rows), column_name, 1),
                     column_name, operator, value)

\* filter_data with its outcome kept beside the text it returns:
\* kind "rows" is the CSV output, whose data rows are in rows.
FilterResult(csv_text, column_name, operator, value) ==
    FilterParsed(CsvReader(csv_text), column_name, operator, value)

filter_data(csv_text, column_name, operator, value) ==
    FilterResult(csv_text, column_name, operator, value).text

---------------------------------------------------------------------------
(* Number formatting *)

\* str(n) for a natural number
RECURSIVE NatText(_)
NatText(n) ==
    LET d == <<"0", "1", "2", "3", "4", "5", "6", "7", "8", "9">>
    IN  IF n < 10 THEN <<d[n + 1]>> ELSE NatText(n \div 10) \o <<d[(n % 10) + 1]>>

\* the largest k with k * k <= n
RECURSIVE ISqrtIn(_, _, _)
ISqrtIn(n, lo, hi) ==
    IF lo >= hi THEN lo
    ELSE LET mid == (lo + hi + 1) \div 2
         IN  IF mid * mid <= n THEN ISqrtIn(n, mid, hi) ELSE ISqrtIn(n, lo, mid - 1)

\* 46340 is the largest root of a 32-bit integer
ISqrt(n) == ISqrtIn(n, 0, IF n < 46340 THEN n ELSE 46340)

\* h hundredths printed as "{:.2f}"; neg prints the sign (also of -0.00)
HundredthsText(h, neg) ==
    (IF neg THEN <<"-">> ELSE <<>>)
    \o NatText(h \div 100) \o <<".">> \o NatText((h % 100) \div 10) \o NatText(h % 10)

\* num/den (num >= 0, den > 0) rounded to hundredths, ties to even
RoundHundredths(num, den) ==
    LET q == (100 * num) \div den
        r == (100 * num) % den
    IN  IF 2 * r > den \/ (2 * r = den /\ q % 2 = 1) THEN q + 1 ELSE q

\* f"{num/den:.2f}"
Fmt2(num, den) == HundredthsText(RoundHundredths(num, den), FALSE)

\* sqrt(num/den) rounded to hundredths: the k with
\* (2k-1)^2 * den <= 4 * 10^4 * num < (2k+1)^2 * den
RoundSqrtHundredths(num, den) ==
    LET k == ISqrt((10000 * num) \div den)
    IN  IF (2 * k + 1) * (2 * k + 1) * den <= 40000 * num THEN k + 1 ELSE k

RECURSIVE SumSeq(_)
SumSeq(s) == IF s = <<>> THEN 0 ELSE Head(s) + SumSeq(Tail(s))

RECURSIVE MinSeq(_)
MinSeq(s) ==
    IF Len(s) = 1 THEN s[1]
    ELSE LET m == MinSeq(Tail(s)) IN IF Head(s) <= m THEN Head(s) ELSE m

RECURSIVE MaxSeq(_)
MaxSeq(s) ==
    IF Len(s) = 1 THEN s[1]
    ELSE LET m == MaxSeq(Tail(s)) IN IF Head(s) >= m THEN Head(s) ELSE m

SumSq(s) == SumSeq([i \in 1..Len(s) |-> s[i] * s[i]])

\* f"{statistics.mean(vals):.2f}"
MeanText(vals) == Fmt2(SumSeq(vals), Len(vals))

\* f"{statistics.pstdev(vals):.2f}": variance = (n*sum(x^2) - sum(x)^2) / n^2
StdText(vals) ==
    LET n == Len(vals)
    IN  HundredthsText(
            RoundSqrtHundredths(n * SumSq(vals) - SumSeq(vals) * SumSeq(vals), n * n),
            FALSE)

---------------------------------------------------------------------------
(* analyze_csv_data *)

\* the restval of csv.DictReader for a cell the row does not have
NoneCell == <<"<None>">>

\* str.lower() of one character
LowerChar(c) == CASE c = "A" -> "a" [] c = "S" -> "s" [] OTHER -> c

Lower(s) == [i \in 1..Len(s) |-> LowerChar(s[i])]

\* sub in s
Contains(s, sub) ==
    \E i \in 0..(Len(s) - Len(sub)) : SubSeq(s, i + 1, i + Len(sub)) = sub

RECURSIVE DropBlank(_)
DropBlank(rows) ==
    IF rows = <<>> THEN <<>>
    ELSE (IF Head(rows) = <<>> THEN <<>> ELSE <<Head(rows)>>) \o DropBlank(Tail(rows))

\* csv.DictReader: the first record is fieldnames, blank records are skipped
DictOf(parsed) ==
    [ok |-> parsed.ok,
     fieldnames |-> IF parsed.rows = <<>> THEN <<>> ELSE parsed.rows[1],
     rows |-> IF parsed.rows = <<>> THEN <<>> ELSE DropBlank(Tail(parsed.rows))]

DictReader(text) == DictOf(CsvReader(text))

\* row.get(h, "") on the dict DictReader builds: dict(zip(fieldnames, row)),
\* then every fieldname past the row's length is set to None
RowGet(fieldnames, row, h) ==
    LET idx == {i \in 1..Len(fieldnames) : fieldnames[i] = h}
        last == CHOOSE i \in idx : \A j \in idx : j <= i
    IN  IF last > Len(row) THEN NoneCell ELSE row[last]

\* some row.get(h, "") is None, on which .strip() raises AttributeError
HasNoneCell(fieldnames, rows) ==
    \E i \in 1..Len(rows) : \E j \in 1..Len(fieldnames) :
        RowGet(fieldnames, rows[i], fieldnames[j]) = NoneCell

\* col_values.append(float(value)), unless float raises ValueError
NumberCell(v) == IF v # NotANumber THEN <<v>> ELSE <<>>

\* col_values of header h: the cells that float() accepts
RECURSIVE ColValues(_, _, _)
ColValues(fieldnames, rows, h) ==
    IF rows = <<>> THEN <<>>
    ELSE NumberCell(Float(Strip(RowGet(fieldnames, Head(rows), h))))
         \o ColValues(fieldnames, Tail(rows), h)

\* the keys of numeric_columns, in insertion order
RECURSIVE NumericKeys(_, _, _)
NumericKeys(fieldnames, rows, i) ==
    IF i > Len(fieldnames) THEN <<>>
    ELSE LET h == fieldnames[i]
             first == \A j \in 1..(i - 1) : fieldnames[j] # h
         IN  (IF first /\ ColValues(fieldnames, rows, h) # <<>> THEN <<h>> ELSE <<>>)
             \o NumericKeys(fieldnames, rows, i + 1)

SummaryLine(h, vals) ==
    <<"- ">> \o h \o <<": mean=">> \o MeanText(vals)
    \o <<",", " ", "min=">> \o Fmt2(MinSeq(vals), 1)
    \o <<",", " ", "max=">> \o Fmt2(MaxSeq(vals), 1)
    \o <<",", " ", "std=">> \o StdText(vals)

SummaryLines(fieldnames, rows, keys) ==
    Join(<<"\n">>,
        << <<"CSV contains ">> \o NatText(Len(rows)) \o <<" rows and ">>
               \o NatText(Len(fieldnames)) \o <<" columns.">>,
           <<"Columns: ">> \o Join(<<",", " ">>, fieldnames) \o <<".">>,
           <<>>,
           <<"Numeric column statistics:">> >>
        \o [i \in 1..Len(keys) |->
               SummaryLine(keys[i], ColValues(fieldnames, rows, keys[i]))])

SummaryReport(fieldnames, rows) ==
    SummaryLines(fieldnames, rows, NumericKeys(fieldnames, rows, 1))

NumericReport(h, vals) ==
    <<"Column '">> \o h \o <<"' has ">> \o NatText(Len(vals))
    \o <<" numeric values.", "\n", "Mean: ">> \o MeanText(vals)
    \o <<"\n", "Min: ">> \o Fmt2(MinSeq(vals), 1)
    \o <<"\n", "Max: ">> \o Fmt2(MaxSeq(vals), 1)
    \o <<"\n", "Std Dev: ">> \o StdText(vals)

\* if v: the empty cell is not counted
NonEmptyCell(v) == IF v # <<>> THEN <<v>> ELSE <<>>

\* the non-empty stripped cells of column h, in row order
RECURSIVE CategoryCells(_, _, _)
CategoryCells(fieldnames, rows, h) ==
    IF rows = <<>> THEN <<>>
    ELSE NonEmptyCell(Strip(RowGet(fieldnames, Head(rows), h)))
         \o CategoryCells(fieldnames, Tail(rows), h)

\* freq.items(): (value, count) pairs in order of first occurrence
RECURSIVE FreqFrom(_, _)
FreqFrom(cells, i) ==
    IF i > Len(cells) THEN <<>>
    ELSE (IF \A j \in 1..(i - 1) : cells[j] # cells[i]
          THEN << <<cells[i], Cardinality({k \in 1..Len(cells) : cells[k] = cells[i]})>> >>
          ELSE <<>>)
         \o FreqFrom(cells, i + 1)

FreqItems(cells) == FreqFrom(cells, 1)

\* sorted(items, key=lambda x: x[1], reverse=True): stable, descending
RECURSIVE InsertDesc(_, _)
InsertDesc(sorted, item) ==
    IF sorted = <<>> THEN <<item>>
    ELSE IF Head(sorted)[2] >= item[2]
         THEN <<Head(sorted)>> \o InsertDesc(Tail(sorted), item)
         ELSE <<item>> \o sorted

RECURSIVE SortedDesc(_)
SortedDesc(items) ==
    IF items = <<>> THEN <<>>
    ELSE InsertDesc(SortedDesc(SubSeq(items, 1, Len(items) - 1)), items[Len(items)])

\* the [:5] slice
TopN == 5

Take(s, n) == SubSeq(s, 1, IF Len(s) < n THEN Len(s) ELSE n)

TopValues(h, top) ==
    <<"Column '">> \o h \o <<"' appears to be categorical.", "\n", "Top values:", "\n">>
    \o Join(<<"\n">>,
           [i \in 1..Len(top) |->
               <<"- ">> \o top[i][1] \o <<": ">> \o NatText(top[i][2])
               \o <<" occurrences">>])

CategoricalReport(fieldnames, rows, h) ==
    TopValues(h, Take(SortedDesc(FreqItems(CategoryCells(fieldnames, rows, h))), TopN))

\* One pair of numeric columns: cov, va, vb are the scaled covariance and
\* variances of a[:n], b[:n]; the Pearson coefficient is cov / sqrt(va * vb).
Moments(x, y, n) ==
    [n |-> n,
     cov |-> n * SumSeq([i \in 1..n |-> x[i] * y[i]]) - SumSeq(x) * SumSeq(y),
     va |-> n * SumSq(x) - SumSeq(x) * SumSeq(x),
     vb |-> n * SumSq(y) - SumSeq(y) * SumSeq(y)]

MinLen(a, b) == IF Len(a) < Len(b) THEN Len(a) ELSE Len(b)

PairStats(a, b) ==
    Moments(SubSeq(a, 1, MinLen(a, b)), SubSeq(b, 1, MinLen(a, b)), MinLen(a, b))

\* np.corrcoef divides 0 by 0 for a constant column
IsNaN(c) == c.va = 0 \/ c.vb = 0

\* abs(x[2]) < abs(y[2]); no comparison with nan holds
AbsLess(c, d) ==
    /\ ~IsNaN(c) /\ ~IsNaN(d)
    /\ c.cov * c.cov * d.va * d.vb < d.cov * d.cov * c.va * c.vb

\* f"{c:.2f}"
CorrText(c) ==
    IF IsNaN(c) THEN <<"nan">>
    ELSE HundredthsText(RoundSqrtHundredths(c.cov * c.cov, c.va * c.vb), c.cov < 0)

\* if n >= 2: corrs.append((a, b, corr))
CorrItem(a, b, st) ==
    IF st.n < 2 THEN <<>>
    ELSE << [a |-> a, b |-> b, cov |-> st.cov, va |-> st.va, vb |-> st.vb] >>

\* corrs: the pairs i < j of numeric columns with at least two common values
RECURSIVE CorrPairs(_, _, _, _, _)
CorrPairs(fieldnames, rows, keys, i, j) ==
    IF i > Len(keys) THEN <<>>
    ELSE IF j > Len(keys) THEN CorrPairs(fieldnames, rows, keys, i + 1, i + 2)
    ELSE CorrItem(keys[i], keys[j],
                  PairStats(ColValues(fieldnames, rows, keys[i]),
                            ColValues(fieldnames, rows, keys[j])))
         \o CorrPairs(fieldnames, rows, keys, i, j + 1)

Reverse(s) == [i \in 1..Len(s) |-> s[Len(s) + 1 - i]]

\* list.sort of a short list: the length of the run at its start, negative
\* when the run is strictly descending
RECURSIVE RunEnd(_, _, _)
RunEnd(s, i, desc) ==
    IF i > Len(s) THEN i - 1
    ELSE IF AbsLess(s[i], s[i - 1]) = desc THEN RunEnd(s, i + 1, desc)
    ELSE i - 1

\* the place a binary insertion puts pivot in the sorted prefix s[1..r]
RECURSIVE BinaryPlace(_, _, _, _)
BinaryPlace(s, pivot, l, r) ==
    IF l >= r THEN l
    ELSE IF AbsLess(pivot, s[l + ((r - l) \div 2) + 1])
         THEN BinaryPlace(s, pivot, l, l + ((r - l) \div 2))
         ELSE BinaryPlace(s, pivot, l + ((r - l) \div 2) + 1, r)

\* s[start] moved to follow the first at elements
MoveTo(s, start, at) ==
    SubSeq(s, 1, at) \o <<s[start]>> \o SubSeq(s, at + 1, start - 1)
    \o SubSeq(s, start + 1, Len(s))

RECURSIVE BinarySort(_, _)
BinarySort(s, start) ==
    IF start > Len(s) THEN s
    ELSE BinarySort(MoveTo(s, start, BinaryPlace(s, s[start], 0, start - 1)),
                    start + 1)

\* corrs.sort(key=lambda x: abs(x[2]), reverse=True)
\* the run at the start of s, reversed in place when it descends
RunFirst(s, desc, run) ==
    IF desc THEN Reverse(SubSeq(s, 1, run)) \o SubSeq(s, run + 1, Len(s)) ELSE s

SortRun(s, desc, run) == BinarySort(RunFirst(s, desc, run), run + 1)

SortFrom(s, desc) == SortRun(s, desc, RunEnd(s, 3, desc))

SortAscending(s) == SortFrom(s, AbsLess(s[2], s[1]))

\* corrs.sort(key=lambda x: abs(x[2]), reverse=True)
SortCorrs(corrs) ==
    IF Len(corrs) < 2 THEN corrs ELSE Reverse(SortAscending(Reverse(corrs)))

TopCorrelations(top) ==
    <<"Top correlations:", "\n">>
    \o Join(<<"\n">>,
           [i \in 1..Len(top) |->
               <<"- ">> \o top[i].a \o <<" ", "<->", " ">> \o top[i].b
               \o <<": corr=">> \o CorrText(top[i])])

CorrelationLines(corrs) ==
    IF corrs = <<>> THEN <<"No numeric correlations found.">>
    ELSE TopCorrelations(Take(SortCorrs(corrs), TopN))

CorrelationReport(fieldnames, rows) ==
    CorrelationLines(CorrPairs(fieldnames, rows, NumericKeys(fieldnames, rows, 1), 1, 2))

GuidanceReport(query) ==
    <<"Sorry", ",", " ", "I couldn't interpret the query '">> \o query
    \o <<"'. Try asking for 'summary'", ",", " ", "'describe <column>'", ",", " ",
         "or 'correlation'.">>

Word(w) ==
    CASE w = "summary" -> <<"s", "u", "m", "m", "a", "r", "y">>
      [] w = "overview" -> <<"o", "v", "e", "r", "v", "i", "e", "w">>
      [] w = "correlation" -> <<"c", "o", "r", "r", "e", "l", "a", "t", "i", "o", "n">>
      [] w = "trend" -> <<"t", "r", "e", "n", "d">>

\* the first header, in header order, whose lower-cased name is in the query
RECURSIVE FirstHeaderIn(_, _, _)
FirstHeaderIn(fieldnames, query_lower, i) ==
    IF i > Len(fieldnames) THEN 0
    ELSE IF Contains(query_lower, Lower(fieldnames[i])) THEN i
    ELSE FirstHeaderIn(fieldnames, query_lower, i + 1)

Returned(text) == [raised |-> FALSE, text |-> text]

Raised(text) == [raised |-> TRUE, text |-> text]

\* lines 98-115: the report on one column
ColumnReport(headers, rows, h, vals) ==
    IF vals # <<>> THEN NumericReport(h, vals)
    ELSE CategoricalReport(headers, rows, h)

\* lines 93-138: hit is the index of the first header in the query, 0 for none
RouteAfterSummary(headers, rows, query, query_lower, hit) ==
    IF hit # 0 THEN
        Returned(ColumnReport(headers, rows, headers[hit],
                              ColValues(headers, rows, headers[hit])))
    ELSE IF \/ Contains(query_lower, Word("correlation"))
            \/ Contains(query_lower, Word("trend")) THEN
        Returned(CorrelationReport(headers, rows))
    ELSE
        Returned(GuidanceReport(query))

\* lines 61-138, for the rows and the fieldnames of the DictReader
AnalyzeRows(headers, rows, query, query_lower) ==
    IF rows = <<>> \/ headers = <<>> THEN
        Returned(<<"Error: ", "Invalid or empty CSV data.">>)
    ELSE IF HasNoneCell(headers, rows) THEN
        Raised(<<"'NoneType' object has no attribute 'strip'">>)
    ELSE IF \/ Contains(query_lower, Word("summary"))
            \/ Contains(query_lower, Word("overview"))
            \/ query_lower = <<>> THEN
        Returned(SummaryReport(headers, rows))
    ELSE RouteAfterSummary(headers, rows, query, query_lower,
                           FirstHeaderIn(headers, query_lower, 1))

\* lines 56-138, for the outcome of the DictReader
AnalyzeReader(reader, query) ==
    IF ~reader.ok THEN Raised(CsvErrorText)
    ELSE AnalyzeRows(reader.fieldnames, reader.rows, query, Strip(Lower(query)))

\* analyze_csv_data: [raised, text]; raised is an exception leaving the tool,
\* text its message
analyze_csv_data(csv_text, query) ==
    IF Strip(csv_text) = <<>> THEN Returned(<<"Error: ", "CSV data is empty.">>)
    ELSE AnalyzeReader(DictReader(csv_text), query)

---------------------------------------------------------------------------
(* Messages *)

\* a message content: a str, or a list of parts
StrContent(text) == [kind |-> "str", text |-> text, parts |-> <<>>]

ListContent(parts) == [kind |-> "list", text |-> <<>>, parts |-> parts]

TextPart(text) == [kind |-> "dict", type |-> "text", text |-> text]

ImagePart == [kind |-> "dict", type |-> "image_url", text |-> <<>>]

StrPart(text) == [kind |-> "str", type |-> "", text |-> text]

NoId == <<0, 0>>

HumanMessage(text) ==
    [type |-> "human", content |-> StrContent(text), tool_calls |-> <<>>,
     tool_call_id |-> NoId, name |-> ""]

AIMessage(content, calls) ==
    [type |-> "ai", content |-> content, tool_calls |-> calls,
     tool_call_id |-> NoId, name |-> ""]

ToolMessage(content, id, name) ==
    [type |-> "tool", content |-> StrContent(content), tool_calls |-> <<>>,
     tool_call_id |-> id, name |-> name]

\* a text that starts with "Error: "
IsError(text) == text # <<>> /\ Head(text) = "Error: "

\* the first part of a list content that is a text dict or a str
RECURSIVE FirstTextPart(_)
FirstTextPart(parts) ==
    IF parts = <<>> THEN <<>>
    ELSE IF Head(parts).kind = "str" \/ Head(parts).type = "text" THEN Head(parts).text
    ELSE FirstTextPart(Tail(parts))

\* _get_string_content
GetStringContent(content) ==
    IF content.kind = "str" THEN content.text
    ELSE IF content.kind = "list" THEN FirstTextPart(content.parts)
    ELSE <<"str(content)">>

---------------------------------------------------------------------------
(* process_tool_calls *)

tools_dict == {"analyze_csv_data", "filter_data"}

\* the parameters a tool's schema requires
Params(tool_name) ==
    IF tool_name = "analyze_csv_data" THEN {"csv_text", "query"}
    ELSE {"csv_text", "column_name", "operator", "value"}

\* tool_args.setdefault("csv_text", csv_data): the model's own value is kept
InjectArgsIfMissing(tool_name, tool_args, csv) ==
    IF tool_name \in tools_dict /\ "csv_text" \notin DOMAIN tool_args
    THEN [k \in DOMAIN tool_args \cup {"csv_text"} |->
              IF k = "csv_text" THEN csv ELSE tool_args[k]]
    ELSE tool_args

\* tool_args["csv_text"] = csv_data, for a registered tool
InjectArgs(tool_name, tool_args, csv) ==
    IF tool_name \in tools_dict
    THEN [k \in DOMAIN tool_args \cup {"csv_text"} |->
              IF k = "csv_text" THEN csv ELSE tool_args[k]]
    ELSE tool_args

\* tools_dict[tool_name].invoke(tool_args): [raised, text].  The lookup of an
\* unregistered name raises KeyError; invoke raises a validation error when a
\* required argument is missing, and whatever the tool raises.
InvokeTool(tool_name, tool_args) ==
    IF tool_name \notin tools_dict THEN
        Raised(<<"'", tool_name, "'">>)
    ELSE IF ~(Params(tool_name) \subseteq DOMAIN tool_args) THEN
        Raised(<<"validation error for ", tool_name>>)
    ELSE IF tool_name = "analyze_csv_data" THEN
        analyze_csv_data(tool_args.csv_text, tool_args.query)
    ELSE
        Returned(filter_data(tool_args.csv_text, tool_args.column_name,
                             tool_args.operator, tool_args.value))

\* a dispatcher without the except clause: what the tool raises leaves it
ToolResultPropagating(tool_call, out) ==
    [tool_call_id |-> tool_call.id,
     name |-> tool_call.name,
     content |-> out.text,
     propagated |-> out.raised]

\* lines 242-253: the result appended for a tool outcome out.  propagated
\* says an exception leaves process_tool_calls; "except Exception" lets none.
ToolResult(tool_call, out) ==
    [tool_call_id |-> tool_call.id,
     name |-> tool_call.name,
     content |-> IF out.raised THEN <<"Error: ">> \o out.text ELSE out.text,
     propagated |-> FALSE]

\* One pass of the for loop: the result appended, the arguments the tool was
\* invoked with, and whether the call raised
Dispatched(tool_call, args, out) ==
    [result |-> ToolResult(tool_call, out), args |-> args, raised |-> out.raised]

InvokeWith(tool_call, args) ==
    Dispatched(tool_call, args, InvokeTool(tool_call.name, args))

\* One pass of the for loop, with the arguments the tool was invoked with
DispatchToolCall(tool_call, csv) ==
    InvokeWith(tool_call, InjectArgs(tool_call.name, tool_call.args, csv))

\* One pass of the for loop: the result appended for tool_call
ProcessToolCall(tool_call, csv) == DispatchToolCall(tool_call, csv).result

\* what the observer logs of one pass d of the for loop
DispatchRecord(tool_call, d) ==
    [id |-> tool_call.id,
     name |-> tool_call.name,
     given |-> IF "csv_text" \in DOMAIN tool_call.args THEN tool_call.args.csv_text
               ELSE NoneCell,
     args |-> d.args,
     raised |-> d.raised]

---------------------------------------------------------------------------
(* The model stub behind llm_with_tools.invoke *)

\* tool-call requests per response
MaxCalls == 2

OtherCsv == <<"a", "\n", "1">>

\* the requests the stub chooses from, for a run whose CSV text is csv
ToolCallChoices(csv) ==
    << [name |-> "analyze_csv_data", args |-> [query |-> Word("summary")]],
       [name |-> "filter_data",
        args |-> [csv_text |-> OtherCsv, column_name |-> <<"a">>,
                  operator |-> ">=", value |-> <<"1">>]],
       [name |-> "plot_data", args |-> [csv_text |-> OtherCsv]],
       [name |-> "analyze_csv_data", args |-> [csv_text |-> csv, query |-> <<"b">>]],
       [name |-> "filter_data", args |-> [column_name |-> <<"b">>]],
       [name |-> "filter_data",
        args |-> [column_name |-> <<" ">>, operator |-> "==", value |-> <<" ">>]] >>

AllChoices == DOMAIN ToolCallChoices(<<>>)

\* a response with k requests, starting at choice c; ids are fresh: the n-th
\* response's j-th request has id <<n, j>>
ToolResponse(csv, n, c, k) ==
    AIMessage(StrContent(<<>>),
        [j \in 1..k |->
            LET ch == ToolCallChoices(csv)[((c + j - 2) % Len(ToolCallChoices(csv))) + 1]
            IN  [id |-> <<n, j>>, name |-> ch.name, args |-> ch.args]])

FinalContents ==
    { StrContent(<<"Final answer">>),
      StrContent(<<>>),
      ListContent(<<TextPart(<<"Final answer">>)>>),
      ListContent(<<ImagePart, StrPart(<<"Plain part">>)>>),
      ListContent(<<>>) }

\* stub s: rounds is the number of tool-requesting responses it still gives,
\* choices the requests it starts from, calls the most requests per response
StubResponses(s, csv, n) ==
    {AIMessage(c, <<>>) : c \in s.finals}
    \cup (IF s.rounds = 0 THEN {}
          ELSE {ToolResponse(csv, n, c, k) : c \in s.choices, k \in 1..s.calls})

---------------------------------------------------------------------------
(* run_agentic_loop *)

NoResult == <<"<none>">>

NoResponse == AIMessage(StrContent(<<>>), <<>>)

Executing(r) == pc[r] \in {"call", "while", "tools"}

\* a first message made of the query alone
InitialPromptQueryOnly(query, csv) == query

\* line 268: initial_prompt
InitialPrompt(query, csv) ==
    query \o <<"\n", "\n", "Here is the CSV data to analyze:", "\n", "\n">> \o csv

\* lines 268-271: the history is seeded with the user message
Call(r) ==
    /\ pc[r] = "call"
    /\ messages' = [messages EXCEPT
           ![r] = <<HumanMessage(InitialPrompt(user_query[r], csv_data[r]))>>]
    /\ iteration' = [iteration EXCEPT ![r] = 0]
    /\ pc' = [pc EXCEPT ![r] = "while"]
    /\ UNCHANGED <<fvars, co, csv_data, user_query, max_iterations, stub, response,
                   tool_results, result, output, invocations, dispatched>>

\* the text of a str content only, a list content read as empty
FinalContentOfStr(resp) == resp.content.text

\* the value returned when the response carries no tool call
FinalContent(resp) == GetStringContent(resp.content)

\* a loop test that admits one more pass
LoopTestInclusive(r) == iteration[r] <= max_iterations[r]

\* line 273: while iteration < max_iterations
LoopTest(r) == iteration[r] < max_iterations[r]

\* lines 273-299: the loop test, the model invocation and, for a response
\* without tool calls, the return
Invoke(r) ==
    /\ pc[r] = "while"
    /\ LoopTest(r)
    /\ iteration' = [iteration EXCEPT ![r] = iteration[r] + 1]
    /\ invocations' = [invocations EXCEPT ![r] = invocations[r] + 1]
    /\ \E resp \in StubResponses(stub[r], csv_data[r], invocations[r] + 1) :
          /\ response' = [response EXCEPT ![r] = resp]
          /\ IF resp.tool_calls # <<>>
             THEN /\ pc' = [pc EXCEPT ![r] = "tools"]
                  /\ stub' = [stub EXCEPT ![r].rounds = stub[r].rounds - 1]
                  /\ UNCHANGED result
             ELSE /\ pc' = [pc EXCEPT ![r] = "returned"]
                  /\ result' = [result EXCEPT ![r] = FinalContent(resp)]
                  /\ UNCHANGED stub
    /\ tool_results' = [tool_results EXCEPT ![r] = <<>>]
    /\ UNCHANGED <<fvars, co, csv_data, user_query, max_iterations, messages, output,
                   dispatched>>

\* the state after the pass d of the for loop over the request j
RecordToolCall(r, j, d) ==
    /\ dispatched' = [dispatched EXCEPT
           ![r] = Append(dispatched[r], DispatchRecord(response[r].tool_calls[j], d))]
    /\ response' = [response EXCEPT ![r].tool_calls[j].args = d.args]
    /\ IF d.result.propagated
       THEN /\ pc' = [pc EXCEPT ![r] = "failed"]
            /\ UNCHANGED tool_results
       ELSE /\ tool_results' = [tool_results EXCEPT
                   ![r] = Append(tool_results[r],
                              [tool_call_id |-> d.result.tool_call_id,
                               name |-> d.result.name,
                               content |-> d.result.content])]
            /\ UNCHANGED pc

\* lines 233-253: one pass of the for loop of process_tool_calls; the
\* injected csv_text is written into the request the response holds
ToolCall(r) ==
    /\ pc[r] = "tools"
    /\ Len(tool_results[r]) < Len(response[r].tool_calls)
    /\ RecordToolCall(r, Len(tool_results[r]) + 1,
           DispatchToolCall(response[r].tool_calls[Len(tool_results[r]) + 1],
                            csv_data[r]))
    /\ UNCHANGED <<fvars, co, csv_data, user_query, max_iterations, stub, messages,
                   iteration, result, output, invocations>>

\* tool-result messages for the calls that did not fail only
ToolMessagesOfSuccesses(results) ==
    [i \in 1..Len(SelectSeq(results, LAMBDA x : ~IsError(x.content))) |->
        ToolMessage(SelectSeq(results, LAMBDA x : ~IsError(x.content))[i].content,
                    SelectSeq(results, LAMBDA x : ~IsError(x.content))[i].tool_call_id,
                    SelectSeq(results, LAMBDA x : ~IsError(x.content))[i].name)]

\* tool-result messages in the reverse of the results' order
ToolMessagesReversed(results) ==
    [i \in 1..Len(results) |->
        ToolMessage(results[Len(results) + 1 - i].content,
                    results[Len(results) + 1 - i].tool_call_id,
                    results[Len(results) + 1 - i].name)]

\* lines 287-293: one tool-result message per result, in the results' order
ToolMessages(results) ==
    [i \in 1..Len(results) |->
        ToolMessage(results[i].content, results[i].tool_call_id, results[i].name)]

\* the response and the tool-result messages appended to one history that
\* all runs share
AppendResultsShared(r) ==
    /\ pc[r] = "tools"
    /\ Len(tool_results[r]) = Len(response[r].tool_calls)
    /\ messages' = [q \in DOMAIN messages |->
           IF messages[q] = <<>> /\ q # r THEN <<>>
           ELSE messages[q] \o <<response[r]>> \o ToolMessages(tool_results[r])]
    /\ pc' = [pc EXCEPT ![r] = "while"]
    /\ UNCHANGED <<fvars, co, csv_data, user_query, max_iterations, stub, iteration,
                   response, tool_results, result, output, invocations, dispatched>>

\* lines 283-295: process_tool_calls has returned; the response and the
\* tool-result messages are appended to the history
AppendResults(r) ==
    /\ pc[r] = "tools"
    /\ Len(tool_results[r]) = Len(response[r].tool_calls)
    /\ messages' = [messages EXCEPT
           ![r] = messages[r] \o <<response[r]>> \o ToolMessages(tool_results[r])]
    /\ pc' = [pc EXCEPT ![r] = "while"]
    /\ UNCHANGED <<fvars, co, csv_data, user_query, max_iterations, stub, iteration,
                   response, tool_results, result, output, invocations, dispatched>>

\* lines 303-306: the value returned when the budget is exhausted
LastContent(msgs) ==
    IF msgs # <<>> THEN GetStringContent(msgs[Len(msgs)].content)
    ELSE <<"No response">>

\* lines 273, 301-306: the loop test fails
Exhausted(r) ==
    /\ pc[r] = "while"
    /\ ~LoopTest(r)
    /\ result' = [result EXCEPT ![r] = LastContent(messages[r])]
    /\ pc' = [pc EXCEPT ![r] = "returned"]
    /\ UNCHANGED <<fvars, co, csv_data, user_query, max_iterations, stub, messages,
                   iteration, response, tool_results, output, invocations, dispatched>>

LoopStep(r) ==
    Call(r) \/ Invoke(r) \/ ToolCall(r) \/ AppendResults(r) \/ Exhausted(r)

---------------------------------------------------------------------------
(* process_with_agent under pw.udfs.async_executor(capacity=2, timeout=3000.0),
   its loop running in ThreadPoolExecutor(max_workers=4) *)

\* CSV inputs discovered
NumRuns == 3

RunIds == 1..NumRuns

\* async_executor(capacity=2, ...)
Capacity == 2

\* ThreadPoolExecutor(max_workers=4)
MaxWorkers == 4

\* def run_agentic_loop(..., max_iterations: int = 5)
DefaultMaxIterations == 5

\* the user_query process_with_agent builds around csv_text
AgentQuery(csv_text) ==
    <<"You are a data analyst. [...] CSV Data:", "\n">> \o csv_text
    \o <<"\n", "\n", "Provide your analysis in this format: [...]">>

\* The coroutine gets a capacity slot and runs to its await: a blank text
\* returns "" at once (freeing the slot), any other submits run_agentic_loop
\* to the executor.
Admit(r) ==
    /\ co[r] = "waiting"
    /\ Cardinality({q \in RunIds : co[q] = "awaiting"}) < Capacity
    /\ IF Strip(csv_data[r]) = <<>>
       THEN /\ co' = [co EXCEPT ![r] = "done"]
            /\ output' = [output EXCEPT ![r] = <<>>]
            /\ UNCHANGED <<pc, user_query>>
       ELSE /\ co' = [co EXCEPT ![r] = "awaiting"]
            /\ user_query' = [user_query EXCEPT ![r] = AgentQuery(csv_data[r])]
            /\ pc' = [pc EXCEPT ![r] = "queued"]
            /\ UNCHANGED output
    /\ UNCHANGED <<fvars, csv_data, max_iterations, stub, messages, iteration,
                   response, tool_results, result, invocations, dispatched>>

\* A worker thread of the pool takes the queued call.
ThreadStart(r) ==
    /\ pc[r] = "queued"
    /\ Cardinality({q \in RunIds : Executing(q)}) < MaxWorkers
    /\ pc' = [pc EXCEPT ![r] = "call"]
    /\ UNCHANGED <<fvars, co, csv_data, user_query, max_iterations, stub, messages,
                   iteration, response, tool_results, result, output, invocations,
                   dispatched>>

\* The timeout expires while the coroutine awaits the executor: the await is
\* cancelled and the slot freed.  A call still queued is cancelled with it; a
\* call a worker thread is running cannot be, and runs on.
Timeout(r) ==
    /\ co[r] = "awaiting"
    /\ co' = [co EXCEPT ![r] = "timedout"]
    /\ pc' = [pc EXCEPT ![r] = IF pc[r] = "queued" THEN "cancelled" ELSE pc[r]]
    /\ UNCHANGED <<fvars, csv_data, user_query, max_iterations, stub, messages,
                   iteration, response, tool_results, result, output, invocations,
                   dispatched>>

\* run_agentic_loop has returned: the coroutine returns its result.
Complete(r) ==
    /\ co[r] = "awaiting"
    /\ pc[r] = "returned"
    /\ co' = [co EXCEPT ![r] = "done"]
    /\ output' = [output EXCEPT ![r] = result[r]]
    /\ UNCHANGED <<fvars, pc, csv_data, user_query, max_iterations, stub, messages,
                   iteration, response, tool_results, result, invocations, dispatched>>

---------------------------------------------------------------------------
(* Scenarios *)

\* largest max_iterations of a direct call
MaxIterations == 2

CsvSamples ==
    { <<"a", ",", "b", "\n", "1", ",", "a", "\n", "1", "1", ",", "a", " ">>,
      <<"a", ",", "b", "\n", "1", "\n">>,
      <<" ", "\n", "a", "\n", " ">>,
      <<>> }

AgentCsv ==
    { <<"a", ",", "b", "\n", "1", ",", "a">>,
      <<"a", ",", "b", "\n", "1", ",", "a", "\n", "2", ",", "b">>,
      <<" ", "\n">> }

AnalyzeOff ==
    /\ apc = "off"
    /\ acsv = <<>> /\ aquery = <<>>
    /\ aout = [raised |-> FALSE, text |-> <<>>]
    /\ aout2 = [raised |-> FALSE, text |-> <<>>]

FilterOff ==
    /\ AnalyzeOff
    /\ fpc = "off"
    /\ fcsv = <<>> /\ fcol = <<>> /\ fop = "==" /\ fval = <<>>
    /\ fout = [kind |-> "unset", rows |-> <<>>, text |-> <<>>]
    /\ fout2 = [kind |-> "unset", rows |-> <<>>, text |-> <<>>]

RunsIdle ==
    /\ messages = [r \in RunIds |-> <<>>]
    /\ iteration = [r \in RunIds |-> 0]
    /\ response = [r \in RunIds |-> NoResponse]
    /\ tool_results = [r \in RunIds |-> <<>>]
    /\ result = [r \in RunIds |-> NoResult]
    /\ output = [r \in RunIds |-> NoResult]
    /\ invocations = [r \in RunIds |-> 0]
    /\ dispatched = [r \in RunIds |-> <<>>]

\* run_agentic_loop(user_query, csv_data, max_iterations) called directly, as
\* run 1, with a stub that may request tools on every invocation
Init ==
    /\ FilterOff
    /\ RunsIdle
    /\ co = [r \in RunIds |-> IF r = 1 THEN "direct" ELSE "absent"]
    /\ pc = [r \in RunIds |-> IF r = 1 THEN "call" ELSE "none"]
    /\ \E c \in CsvSamples : csv_data = [r \in RunIds |-> c]
    /\ user_query = [r \in RunIds |-> <<"Analyze this data.">>]
    /\ \E m \in (-1)..MaxIterations : max_iterations = [r \in RunIds |-> m]
    /\ stub = [r \in RunIds |->
                  [rounds |-> MaxIterations, choices |-> AllChoices, calls |-> MaxCalls,
                   finals |-> FinalContents]]

Next == \E r \in RunIds : LoopStep(r)

Spec == Init /\ [][Next]_vars

\* process_with_agent called once per discovered CSV input.  The stub of run 1
\* may request a tool on every invocation, the stubs of the other runs answer
\* at once.
AgentInit ==
    /\ FilterOff
    /\ RunsIdle
    /\ co = [r \in RunIds |-> "waiting"]
    /\ pc = [r \in RunIds |-> "none"]
    /\ csv_data \in [RunIds -> AgentCsv]
    /\ user_query = [r \in RunIds |-> <<>>]
    /\ max_iterations = [r \in RunIds |-> DefaultMaxIterations]
    /\ stub = [r \in RunIds |->
                  [rounds |-> IF r = 1 THEN DefaultMaxIterations ELSE 0,
                   choices |-> {1}, calls |-> 1,
                   finals |-> {StrContent(<<"Final answer">>)}]]

AgentNext ==
    \E r \in RunIds :
        \/ Admit(r)
        \/ ThreadStart(r)
        \/ Timeout(r)
        \/ Complete(r)
        \/ LoopStep(r)

AgentSpec == AgentInit /\ [][AgentNext]_vars

---------------------------------------------------------------------------
(* The filter_data scenario: one call, then a second call on its output *)

FilterInit ==
    /\ fpc = "call"
    /\ fcsv \in Texts(MaxLen) \cup QuotedSamples
    /\ fcol \in ColumnNames
    /\ fop \in Operators \cup {"~"}
    /\ fval \in Values
    /\ fout = [kind |-> "unset", rows |-> <<>>, text |-> <<>>]
    /\ fout2 = [kind |-> "unset", rows |-> <<>>, text |-> <<>>]
    /\ AnalyzeOff
    /\ RunsIdle
    /\ co = [r \in RunIds |-> "absent"]
    /\ pc = [r \in RunIds |-> "none"]
    /\ csv_data = [r \in RunIds |-> <<>>]
    /\ user_query = [r \in RunIds |-> <<>>]
    /\ max_iterations = [r \in RunIds |-> 0]
    /\ stub = [r \in RunIds |-> [rounds |-> 0, choices |-> {}, calls |-> 0, finals |-> {}]]

FilterCall ==
    /\ fpc = "call"
    /\ fout' = FilterResult(fcsv, fcol, fop, fval)
    /\ fpc' = "again"
    /\ UNCHANGED <<fcsv, fcol, fop, fval, fout2, apc, acsv, aquery, aout, aout2, avars>>

FilterAgain ==
    /\ fpc = "again"
    /\ fout2' = FilterResult(fout.text, fcol, fop, fval)
    /\ fpc' = "done"
    /\ UNCHANGED <<fcsv, fcol, fop, fval, fout, apc, acsv, aquery, aout, aout2, avars>>

FilterNext == FilterCall \/ FilterAgain

FilterSpec == FilterInit /\ [][FilterNext]_vars

---------------------------------------------------------------------------
(* The analyze_csv_data scenario: one call, then the same call again *)

\* tables with more rows than the enumerated texts hold: six distinct values
\* with ties, numeric and categorical columns side by side, a row with fewer
\* cells than headers, a row with more, an empty header
TableSamples ==
    { <<"g", "\n", "x", "\n", "y", "\n", "y", "\n", "z", "\n", "z", "\n", "w", "\n",
        "v", "\n", "u", "\n", "z", "\n">>,
      <<"g", ",", "a", "\n", "x", ",", "1", "\n", " ", "y", " ", ",", "1", "1", "\n",
        "y", ",", "a", "\n", ",", "1", "\n">>,
      <<"a", ",", "g", "\n", "1", ",", "x", "\n", "1", "1", "\n">>,
      <<"g", ",", "w", "\n", "x", ",", "1", "\n", "y", ",", "1", ",", "1", "\n">>,
      <<",", "g", "\n", "1", ",", "x", "\n">>,
      <<"a", ",", "w", "\n", "1", ",", "1", "1", "\n", "1", "1", ",", "1", "\n",
        "a", ",", "1", "\n">> }

Queries ==
    { <<>>, <<" ">>, <<"a">>, <<"A", " ", "1">>, <<"g">>, <<"z", "z">>,
      Word("summary"), <<"S">> \o Tail(Word("summary")) \o <<" ", "g">>,
      Word("overview") \o <<" ">>, Word("trend") \o <<" ", "a">>,
      Word("correlation"), <<"w", " ">> \o Word("trend") }

AnalyzeInit ==
    /\ apc = "call"
    /\ acsv \in Texts(MaxLen) \cup QuotedSamples \cup TableSamples
    /\ aquery \in Queries
    /\ aout = [raised |-> FALSE, text |-> <<>>]
    /\ aout2 = [raised |-> FALSE, text |-> <<>>]
    /\ fpc = "off"
    /\ fcsv = <<>> /\ fcol = <<>> /\ fop = "==" /\ fval = <<>>
    /\ fout = [kind |-> "unset", rows |-> <<>>, text |-> <<>>]
    /\ fout2 = [kind |-> "unset", rows |-> <<>>, text |-> <<>>]
    /\ RunsIdle
    /\ co = [r \in RunIds |-> "absent"]
    /\ pc = [r \in RunIds |-> "none"]
    /\ csv_data = [r \in RunIds |-> <<>>]
    /\ user_query = [r \in RunIds |-> <<>>]
    /\ max_iterations = [r \in RunIds |-> 0]
    /\ stub = [r \in RunIds |-> [rounds |-> 0, choices |-> {}, calls |-> 0, finals |-> {}]]

AnalyzeCall ==
    /\ apc = "call"
    /\ aout' = analyze_csv_data(acsv, aquery)
    /\ apc' = "again"
    /\ UNCHANGED <<acsv, aquery, aout2, fpc, fcsv, fcol, fop, fval, fout, fout2, avars>>

AnalyzeAgain ==
    /\ apc = "again"
    /\ aout2' = analyze_csv_data(acsv, aquery)
    /\ apc' = "done"
    /\ UNCHANGED <<acsv, aquery, aout, fpc, fcsv, fcol, fop, fval, fout, fout2, avars>>

AnalyzeNext == AnalyzeCall \/ AnalyzeAgain

AnalyzeSpec == AnalyzeInit /\ [][AnalyzeNext]_vars

---------------------------------------------------------------------------
(* Properties of run_agentic_loop *)

\* an upper bound on the loop steps run r can still take: MaxCalls + 2 for
\* every pass of the loop left, and the steps left in the pass under way
Remaining(r) ==
    CASE pc[r] = "call" ->
            (MaxCalls + 2) * ((IF max_iterations[r] > 0 THEN max_iterations[r] ELSE 0) + 1)
      [] pc[r] = "while" ->
            (MaxCalls + 2) * (IF max_iterations[r] > iteration[r]
                              THEN max_iterations[r] - iteration[r] ELSE 0) + 1
      [] pc[r] = "tools" ->
            (MaxCalls + 2) * (IF max_iterations[r] > iteration[r]
                              THEN max_iterations[r] - iteration[r] ELSE 0) + 2
            + Len(response[r].tool_calls) - Len(tool_results[r])
      [] OTHER -> 0

\* C1: for every max_iterations >= 0 the model is invoked at most
\* max_iterations times, whatever tools it requests, and the call then returns
\* a value: until it has returned one the call has a next step, no step fails,
\* and every step brings the return nearer
C1_BoundedInvocations ==
    /\ [](\A r \in RunIds :
             (co[r] = "direct" /\ max_iterations[r] >= 0) =>
                 /\ invocations[r] <= max_iterations[r]
                 /\ iteration[r] = invocations[r]
                 /\ pc[r] \in {"call", "while", "tools", "returned"}
                 /\ pc[r] = "returned" => result[r] # NoResult
                 /\ pc[r] # "returned" =>
                        \/ ENABLED (Call(r) \/ Invoke(r) \/ AppendResults(r) \/ Exhausted(r))
                        \/ /\ pc[r] = "tools"
                           /\ Len(tool_results[r]) < Len(response[r].tool_calls))
    /\ [][\A r \in RunIds :
             (co[r] = "direct" /\ max_iterations[r] >= 0) =>
                 /\ Remaining(r) >= 0
                 /\ Remaining(r)' < Remaining(r)]_vars

\* the whole budget spent on responses that each request MaxCalls tools
C1_Witness ==
    /\ max_iterations[1] = MaxIterations
    /\ invocations[1] = MaxIterations
    /\ Len(dispatched[1]) = MaxIterations * MaxCalls
    /\ pc[1] = "returned"
    /\ result[1] # NoResult

\* C2: whenever the model is about to be invoked, every tool-call request of a
\* model message in the history has exactly one tool-result message with its
\* id in the history
C2_EveryRequestAnsweredOnce ==
    \A r \in RunIds :
        (pc[r] = "while" /\ LoopTest(r)) =>
            \A i \in 1..Len(messages[r]) :
                \A j \in 1..Len(messages[r][i].tool_calls) :
                    Cardinality({k \in 1..Len(messages[r]) :
                        /\ messages[r][k].type = "tool"
                        /\ messages[r][k].tool_call_id
                               = messages[r][i].tool_calls[j].id}) = 1

\* a second invocation is due after a response with two requests, one of
\* which failed and one of which did not
C2_Witness ==
    /\ pc[1] = "while" /\ LoopTest(1)
    /\ \E i \in 1..Len(messages[1]) : Len(messages[1][i].tool_calls) = 2
    /\ \E k \in 1..Len(messages[1]) :
          /\ messages[1][k].type = "tool"
          /\ IsError(messages[1][k].content.text)
    /\ \E k \in 1..Len(messages[1]) :
          /\ messages[1][k].type = "tool"
          /\ ~IsError(messages[1][k].content.text)

\* C3: a model message with requests r1..rk in the history is followed by
\* exactly k tool-result messages, with the ids of r1..rk in that order
C3_ResultsInRequestOrder ==
    \A r \in RunIds : \A i \in 1..Len(messages[r]) :
        messages[r][i].type = "ai" =>
            /\ i + Len(messages[r][i].tool_calls) <= Len(messages[r])
            /\ \A j \in 1..Len(messages[r][i].tool_calls) :
                  /\ messages[r][i + j].type = "tool"
                  /\ messages[r][i + j].tool_call_id = messages[r][i].tool_calls[j].id
            /\ \/ i + Len(messages[r][i].tool_calls) = Len(messages[r])
               \/ messages[r][i + Len(messages[r][i].tool_calls) + 1].type # "tool"

\* a model message with two requests is in the history, the first one failed
\* and the second did not
C3_Witness ==
    \E i \in 1..Len(messages[1]) :
        /\ messages[1][i].type = "ai"
        /\ Len(messages[1][i].tool_calls) = 2
        /\ i + 2 <= Len(messages[1])
        /\ IsError(messages[1][i + 1].content.text)
        /\ ~IsError(messages[1][i + 2].content.text)

\* C4: a request that names an unregistered tool, or whose tool raises, never
\* ends the run: its result starts with "Error: ", is in the history as a
\* tool-result message once process_tool_calls has returned, and the loop is
\* then at its next step
C4_ToolFailureSurfaced ==
    \A r \in RunIds :
        /\ pc[r] # "failed"
        /\ \A i \in 1..Len(dispatched[r]) :
              (dispatched[r][i].name \notin tools_dict \/ dispatched[r][i].raised) =>
                  \/ /\ pc[r] = "tools"
                     /\ \E k \in 1..Len(tool_results[r]) :
                           /\ tool_results[r][k].tool_call_id = dispatched[r][i].id
                           /\ IsError(tool_results[r][k].content)
                  \/ /\ pc[r] \in {"tools", "while", "returned"}
                     /\ \E k \in 1..Len(messages[r]) :
                           /\ messages[r][k].type = "tool"
                           /\ messages[r][k].tool_call_id = dispatched[r][i].id
                           /\ IsError(messages[r][k].content.text)

\* the model has been invoked again after an unregistered tool was requested
\* and after a registered tool raised
C4_Witness ==
    /\ \E i \in 1..Len(dispatched[1]) :
          /\ dispatched[1][i].name \notin tools_dict
          /\ dispatched[1][i].id[1] < invocations[1]
    /\ \E i \in 1..Len(dispatched[1]) :
          /\ dispatched[1][i].name \in tools_dict
          /\ dispatched[1][i].raised
          /\ dispatched[1][i].id[1] < invocations[1]

\* C5: every registered tool is invoked with csv_text equal to the run's CSV
\* text, whatever csv_text the request carried
C5_CsvTextInjected ==
    \A r \in RunIds : \A i \in 1..Len(dispatched[r]) :
        dispatched[r][i].name \in tools_dict =>
            /\ "csv_text" \in DOMAIN dispatched[r][i].args
            /\ dispatched[r][i].args.csv_text = csv_data[r]

\* one run has dispatched a request without csv_text, one with the run's
\* text and one with another text
C5_Witness ==
    /\ \E i \in 1..Len(dispatched[1]) :
          dispatched[1][i].name \in tools_dict /\ dispatched[1][i].given = NoneCell
    /\ \E i \in 1..Len(dispatched[1]) :
          dispatched[1][i].name \in tools_dict /\ dispatched[1][i].given = csv_data[1]
    /\ \E i \in 1..Len(dispatched[1]) :
          /\ dispatched[1][i].name \in tools_dict
          /\ dispatched[1][i].given \notin {NoneCell, csv_data[1]}

\* C6: when every one of the max_iterations >= 1 invocations requested tools,
\* the value returned is non-empty and is the text content of the last message
\* of the history
C6_FallbackNonEmpty ==
    \A r \in RunIds :
        (/\ pc[r] = "returned"
         /\ max_iterations[r] >= 1
         /\ Cardinality({i \in 1..Len(messages[r]) : messages[r][i].type = "ai"})
                = max_iterations[r]) =>
            /\ result[r] # <<>>
            /\ result[r] = GetStringContent(messages[r][Len(messages[r])].content)

---------------------------------------------------------------------------
(* Properties of process_with_agent *)

\* C7: at no moment are more than Capacity agent loops executing
C7_ExecutingWithinCapacity ==
    Cardinality({r \in RunIds : Executing(r)}) <= Capacity

\* C8: a run whose timeout has expired invokes the model no more and
\* dispatches no more tool calls
C8_NoStepAfterTimeout ==
    [][\A r \in RunIds :
          co[r] = "timedout" =>
              /\ invocations'[r] = invocations[r]
              /\ dispatched'[r] = dispatched[r]]_vars

---------------------------------------------------------------------------
(* Properties of filter_data *)

\* C9: under ==, >= and <= the second application, to the output of the
\* first, yields the same set of rows as the first
C9_Idempotent ==
    (fpc = "done" /\ fop \in {"==", ">=", "<="}) =>
        (IF fout2.kind = "rows" THEN {fout2.rows[i] : i \in 1..Len(fout2.rows)} ELSE {})
            = (IF fout.kind = "rows" THEN {fout.rows[i] : i \in 1..Len(fout.rows)} ELSE {})

\* C10, as stated: for every CSV text, a column name that is not among its
\* headers gets the column-not-found message
C10_AsStated ==
    (/\ fpc # "call"
     /\ \/ ~CsvReader(fcsv).ok
        \/ CsvReader(fcsv).rows = <<>>
        \/ \A i \in 1..Len(CsvReader(fcsv).rows[1]) : CsvReader(fcsv).rows[1][i] # fcol) =>
        fout.kind = "column"

\* C10: for every CSV text the reader parses into at least one record, and
\* every operator and value, a column name that is not a field of the first
\* record gets the column-not-found message, which lists those fields
\* verbatim, joined by ", "
C10_UnknownColumnMessage ==
    (/\ fpc # "call"
     /\ CsvReader(fcsv).ok
     /\ CsvReader(fcsv).rows # <<>>
     /\ \A i \in 1..Len(CsvReader(fcsv).rows[1]) : CsvReader(fcsv).rows[1][i] # fcol) =>
        /\ fout.kind = "column"
        /\ fout.text = <<"Error: ", "Column '">> \o fcol
                       \o <<"' not found. Available columns: ">>
                       \o Join(<<",", " ">>, CsvReader(fcsv).rows[1])

\* an unknown column together with an unknown operator, on a CSV text with
\* two headers
C10_Witness ==
    /\ fpc = "again"
    /\ fop = "~"
    /\ CsvReader(fcsv).ok
    /\ CsvReader(fcsv).rows # <<>>
    /\ Len(CsvReader(fcsv).rows[1]) = 2
    /\ \A i \in 1..2 : CsvReader(fcsv).rows[1][i] # fcol
    /\ fout.kind = "column"

\* C12: when the value is not a number (valid column and operator), the rows
\* of the output are the header row and exactly the data rows whose cell in
\* the column satisfies the string comparison; with no such row the output is
\* the no-match message
C12_StringModeKeepsMatches ==
    (/\ fpc # "call"
     /\ Float(fval) = NotANumber
     /\ fop \in Operators
     /\ CsvReader(fcsv).ok
     /\ CsvReader(fcsv).rows # <<>>
     /\ IndexOf(Head(CsvReader(fcsv).rows), fcol, 1) # 0) =>
        LET lines == CsvReader(fcsv).rows
            idx == IndexOf(Head(lines), fcol, 1)
            matching == SelectSeq(Tail(lines),
                            LAMBDA row : Len(row) >= idx /\ StrCompare(fop, row[idx], fval))
        IN  IF matching = <<>> THEN fout.kind = "none"
            ELSE /\ CsvReader(fout.text).ok
                 /\ CsvReader(fout.text).rows = <<Head(lines)>> \o matching

\* C13 (filter_data): a CSV text that is blank after trimming gets the
\* "CSV data is empty" error and nothing else
C13_BlankIsEmptyInput ==
    (fpc # "call" /\ Strip(fcsv) = <<>>) =>
        /\ fout.kind = "empty"
        /\ fout.text = <<"Error: ", "CSV data is empty.">>

\* C17: when the value is a number (valid column and operator), the rows of
\* the output are the header row followed by exactly the data rows whose cell
\* in the column is a number satisfying the numeric comparison, in their
\* original order
C17_NumericModeKeepsMatches ==
    (/\ fpc # "call"
     /\ Float(fval) # NotANumber
     /\ fop \in Operators
     /\ CsvReader(fcsv).ok
     /\ CsvReader(fcsv).rows # <<>>
     /\ IndexOf(Head(CsvReader(fcsv).rows), fcol, 1) # 0) =>
        LET lines == CsvReader(fcsv).rows
            idx == IndexOf(Head(lines), fcol, 1)
            matching == SelectSeq(Tail(lines),
                            LAMBDA row : /\ Len(row) >= idx
                                         /\ Float(row[idx]) # NotANumber
                                         /\ NumCompare(fop, Float(row[idx]), Float(fval)))
        IN  /\ CsvReader(fout.text).ok
            /\ CsvReader(fout.text).rows = <<Head(lines)>> \o matching

---------------------------------------------------------------------------
(* Properties of analyze_csv_data *)

\* C11: a table with a data row of fewer cells than headers gets the normal
\* report for the query, nothing is raised and no error is returned
C11_RaggedTolerated ==
    (/\ apc # "call"
     /\ DictReader(acsv).ok
     /\ DictReader(acsv).fieldnames # <<>>
     /\ \E i \in 1..Len(DictReader(acsv).rows) :
           Len(DictReader(acsv).rows[i]) < Len(DictReader(acsv).fieldnames)) =>
        /\ ~aout.raised
        /\ ~IsError(aout.text)

\* C14: for every table and query the report is that of the first matching
\* route in the order summary (empty query, "summary", "overview"), column
\* (the first header whose name the query contains, case-insensitively),
\* correlation ("correlation", "trend"), guidance; and the same call made
\* again gives the same report
C14_RoutePriority ==
    (/\ apc = "done"
     /\ Strip(acsv) # <<>>
     /\ DictReader(acsv).ok
     /\ DictReader(acsv).rows # <<>>
     /\ DictReader(acsv).fieldnames # <<>>) =>
        LET names == DictReader(acsv).fieldnames
            q == Strip(Lower(aquery))
            hits == {i \in 1..Len(names) : Contains(q, Lower(names[i]))}
            h == names[CHOOSE i \in hits : \A j \in hits : i <= j]
        IN  /\ aout2 = aout
            /\ ~aout.raised
            /\ IF q = <<>> \/ Contains(q, Word("summary")) \/ Contains(q, Word("overview"))
               THEN Head(aout.text) = "CSV contains "
               ELSE IF hits # {}
               THEN /\ Head(aout.text) = "Column '"
                    /\ SubSeq(aout.text, 2, Len(h) + 1) = h
                    /\ aout.text[Len(h) + 2] \in {"' has ", "' appears to be categorical."}
               ELSE IF Contains(q, Word("correlation")) \/ Contains(q, Word("trend"))
               THEN Head(aout.text) \in {"Top correlations:", "No numeric correlations found."}
               ELSE Head(aout.text) = "Sorry"

\* C18: when the column route is taken for a column without numeric cells,
\* the report lists the min(5, number of distinct values) values of highest
\* count among the non-empty trimmed cells, in descending count, values of
\* equal count in the order of their first occurrence
C18_TopFiveByFrequency ==
    LET names == DictReader(acsv).fieldnames
        rows == DictReader(acsv).rows
        q == Strip(Lower(aquery))
        hits == {i \in 1..Len(names) : Contains(q, Lower(names[i]))}
        h == names[CHOOSE i \in hits : \A j \in hits : i <= j]
        cell(i) == IF RowGet(names, rows[i], h) = NoneCell THEN <<>>
                   ELSE Strip(RowGet(names, rows[i], h))
        vals == SelectSeq([i \in 1..Len(rows) |-> cell(i)], LAMBDA v : v # <<>>)
        distinct == {vals[i] : i \in 1..Len(vals)}
        count(v) == Cardinality({i \in 1..Len(vals) : vals[i] = v})
        first(v) == CHOOSE i \in 1..Len(vals) :
                        vals[i] = v /\ \A j \in 1..(i - 1) : vals[j] # v
        rank(v) == 1 + Cardinality({w \in distinct :
                           \/ count(w) > count(v)
                           \/ count(w) = count(v) /\ first(w) < first(v)})
        n == IF Cardinality(distinct) < TopN THEN Cardinality(distinct) ELSE TopN
        line(k) == LET v == CHOOSE w \in distinct : rank(w) = k
                   IN  <<"- ">> \o v \o <<": ">> \o NatText(count(v)) \o <<" occurrences">>
    IN  (/\ apc # "call"
         /\ Strip(acsv) # <<>>
         /\ DictReader(acsv).ok
         /\ rows # <<>>
         /\ names # <<>>
         /\ ~(q = <<>> \/ Contains(q, Word("summary")) \/ Contains(q, Word("overview")))
         /\ hits # {}
         /\ \A i \in 1..Len(rows) : Float(cell(i)) = NotANumber) =>
            /\ ~aout.raised
            /\ aout.text = <<"Column '">> \o h
                           \o <<"' appears to be categorical.", "\n", "Top values:", "\n">>
                           \o Join(<<"\n">>, [k \in 1..n |-> line(k)])

---------------------------------------------------------------------------
(* Further properties of run_agentic_loop *)

\* C15: a model response without tool-call requests ends the run in the very
\* step that receives it, with the response's text as the value returned (the
\* str itself, or the first text part of a list, or "" when the list has
\* none); that step dispatches no tool and leaves the history as it is, a run
\* that has returned invokes and dispatches nothing more, and no model message
\* without requests is ever in a history
C15_FinalAnswerEndsRun ==
    /\ [][\A r \in RunIds :
             (invocations'[r] = invocations[r] + 1 /\ response'[r].tool_calls = <<>>) =>
                 LET c == response'[r].content
                     texts == {i \in 1..Len(c.parts) :
                                  c.parts[i].kind = "str" \/ c.parts[i].type = "text"}
                 IN  /\ pc'[r] = "returned"
                     /\ result'[r] = IF c.kind = "str" THEN c.text
                                     ELSE IF texts = {} THEN <<>>
                                     ELSE c.parts[CHOOSE i \in texts :
                                                     \A j \in texts : i <= j].text
                     /\ messages'[r] = messages[r]
                     /\ dispatched'[r] = dispatched[r]]_vars
    /\ [][\A r \in RunIds :
             pc[r] = "returned" =>
                 /\ pc'[r] = "returned"
                 /\ invocations'[r] = invocations[r]
                 /\ dispatched'[r] = dispatched[r]
                 /\ messages'[r] = messages[r]
                 /\ result'[r] = result[r]]_vars
    /\ [](\A r \in RunIds : \A i \in 1..Len(messages[r]) :
             messages[r][i].type = "ai" => messages[r][i].tool_calls # <<>>)

\* after a round of tools the model answers with a list content whose first
\* part is an image and whose second is a str: the run has returned that str,
\* and the last message of the history is still the last tool result
C15_Witness ==
    /\ pc[1] = "returned"
    /\ invocations[1] = 2
    /\ invocations[1] <= max_iterations[1]
    /\ response[1].tool_calls = <<>>
    /\ response[1].content = ListContent(<<ImagePart, StrPart(<<"Plain part">>)>>)
    /\ result[1] = <<"Plain part">>
    /\ dispatched[1] # <<>>
    /\ messages[1][Len(messages[1])].type = "tool"

\* C19: a call with max_iterations <= 0 never invokes the model and never
\* dispatches a tool, and returns the text of the first user message: the
\* query, a blank line, "Here is the CSV data to analyze:", a blank line and
\* the CSV text; and from the first loop test on the history is never empty,
\* so that the return of "No response" is never taken
C19_NoBudgetReturnsPrompt ==
    \A r \in RunIds :
        /\ (pc[r] # "none" /\ max_iterations[r] <= 0) =>
              /\ invocations[r] = 0
              /\ dispatched[r] = <<>>
              /\ pc[r] \in {"call", "while", "returned"}
              /\ pc[r] = "returned" =>
                    result[r] = user_query[r]
                                \o <<"\n", "\n", "Here is the CSV data to analyze:",
                                     "\n", "\n">>
                                \o csv_data[r]
        /\ pc[r] \in {"while", "tools", "returned"} =>
              /\ messages[r] # <<>>
              /\ messages[r][1].type = "human"

\* a call with a negative budget and a non-blank CSV text has returned
C19_Witness ==
    /\ max_iterations[1] = -1
    /\ pc[1] = "returned"
    /\ Strip(csv_data[1]) # <<>>
    /\ Len(result[1]) > Len(csv_data[1])
    /\ Len(messages[1]) = 1

---------------------------------------------------------------------------
(* Properties of concurrent runs *)

\* C16: under every interleaving of the runs, the history of a run starts
\* with the user message built from the run's own CSV text; every model
\* message in it is the response to one of the run's own invocations, in
\* their order, and is followed by the results of its requests computed from
\* the run's own CSV text; and a step changes the history and the iteration
\* counter of at most one run, and the CSV text of none
C16_HistoriesIsolated ==
    /\ [](\A r \in RunIds :
             messages[r] # <<>> =>
                 /\ messages[r][1] =
                        HumanMessage(AgentQuery(csv_data[r])
                                     \o <<"\n", "\n", "Here is the CSV data to analyze:",
                                          "\n", "\n">>
                                     \o csv_data[r])
                 /\ \A i \in 2..Len(messages[r]) :
                       /\ messages[r][i].type \in {"ai", "tool"}
                       /\ messages[r][i].type = "ai" =>
                             /\ i + Len(messages[r][i].tool_calls) <= Len(messages[r])
                             /\ \A j \in 1..Len(messages[r][i].tool_calls) :
                                   /\ messages[r][i].tool_calls[j].id[1] <= invocations[r]
                                   /\ messages[r][i].tool_calls[j].id[1] =
                                          Cardinality({k \in 2..i : messages[r][k].type = "ai"})
                                   /\ messages[r][i].tool_calls[j].args.csv_text = csv_data[r]
                                   /\ messages[r][i + j] =
                                          ToolMessage(
                                              ProcessToolCall(messages[r][i].tool_calls[j],
                                                              csv_data[r]).content,
                                              messages[r][i].tool_calls[j].id,
                                              messages[r][i].tool_calls[j].name)
                 /\ Cardinality({k \in 2..Len(messages[r]) : messages[r][k].type = "ai"})
                        <= invocations[r])
    /\ [][/\ csv_data' = csv_data
          /\ \A r \in RunIds :
                (messages'[r] # messages[r] \/ iteration'[r] # iteration[r]) =>
                    \A q \in RunIds \ {r} :
                        /\ messages'[q] = messages[q]
                        /\ iteration'[q] = iteration[q]]_vars

\* two runs with different CSV texts are executing at once: run 1 has a tool
\* result in its history and is at its second round of tools, the other run
\* has its own user message in its history
C16_Witness ==
    \E q \in RunIds \ {1} :
        /\ csv_data[q] # csv_data[1]
        /\ Executing(1) /\ Executing(q)
        /\ pc[1] = "tools" /\ invocations[1] = 2
        /\ \E k \in 1..Len(messages[1]) : messages[1][k].type = "tool"
        /\ messages[q] # <<>>

====
